---- MODULE Spec2Model ----
(***************************************************************************)
(* The training loop of                                                    *)
(* examples/cv/mnist_lenet5_image_classification_pure_pytorch.py (main).   *)
(*                                                                         *)
(* The tensors are abstracted by their provenance:                         *)
(*   predictions = <<images, theta>>   the forward pass of the batch       *)
(*                                     `images` through the parameters     *)
(*                                     that result from theta updates;     *)
(*   loss        = <<predictions, targets>>;                               *)
(*   grad        = the sequence of losses whose gradients have been added  *)
(*                 into the parameters' .grad since it was last reset;     *)
(*   params      = the sequence of gradients the optimizer has consumed,   *)
(*                 one entry per completed opt.step().                     *)
(* A sample is identified by its index in the dataset; its image and its   *)
(* target are both named by that index.                                    *)
(***************************************************************************)
EXTENDS Integers, Sequences, FiniteSets

\* Bounds of the model.
MaxSamples == 4
MaxBatchSize == 3
MaxFreq == 3

VARIABLES
    ds_len,       \* len(mnist_ds)
    batch_size,   \* cfg.dataloader.batch_size
    shuffle,      \* cfg.dataloader.shuffle
    freq,         \* cfg.freq
    pc,           \* position of main
    order,        \* the sampler's order of sample indices for this epoch
    pos,          \* number of samples the data loader has handed out
    n,            \* enumerate's counter: the index the next item gets
    step,         \* loop variable step
    batch,        \* loop variables images / targets (sample indices)
    predictions,  \* local predictions
    loss,         \* local loss
    grad,         \* accumulated .grad of lenet5.parameters()
    params,       \* lenet5.parameters(), as the history of updates
    log,          \* lines emitted by logging.info: <<step, loss>>
    raised,       \* <<>> or <<statement, exception>> once main has aborted
    ops,          \* history: the operations performed, in order
    batches       \* history: the batches the loop has received, in order

vars == <<ds_len, batch_size, shuffle, freq, pc, order, pos, n, step, batch,
          predictions, loss, grad, params, log, raised, ops, batches>>

cfgvars == <<ds_len, batch_size, shuffle, freq>>

\* A name that is not bound yet (a local before its first assignment).
Unbound == <<>>
NoStep == 0 - 1

Min(a, b) == IF a < b THEN a ELSE b

\* DataLoaderConfig(batch_size=128, shuffle=True) leaves drop_last at its
\* default: the last, shorter batch is kept.
\* Faulty variant: incomplete last batches are dropped.
drop_last_true == TRUE
drop_last == FALSE

\* The orders a sampler can produce over a dataset of length len:
\* SequentialSampler (shuffle=False) yields 1..len in order, RandomSampler
\* (shuffle=True) yields any permutation.
Identity(len) == [i \in 1..len |-> i]
Permutations(len) ==
    {f \in [1..len -> 1..len] : \A i, j \in 1..len : f[i] = f[j] => i = j}
SamplerOrders(len, shuf) ==
    IF shuf THEN Permutations(len) ELSE {Identity(len)}

\* BatchSampler: whether another batch is available after p samples were
\* handed out, and the batch it then yields.
HasNextBatch(ord, p, bs) ==
    IF drop_last THEN p + bs <= Len(ord) ELSE p < Len(ord)

\* Faulty variant: a batch takes one sample too many.
NextBatch_long(ord, p, bs) == SubSeq(ord, p + 1, Min(p + bs + 1, Len(ord)))
NextBatch(ord, p, bs) == SubSeq(ord, p + 1, Min(p + bs, Len(ord)))

\* The statement that follows statement p in the loop body.
\* Faulty variants of the statement order: update before backward; the
\* update left out of the loop; the log line emitted after the update.
After_swapped(p) ==
    CASE p = "zero_grad" -> "forward"
      [] p = "forward"   -> "loss"
      [] p = "loss"      -> "print"
      [] p = "print"     -> "step"
      [] p = "step"      -> "backward"
      [] p = "backward"  -> "next"
After_nostep(p) ==
    CASE p = "zero_grad" -> "forward"
      [] p = "forward"   -> "loss"
      [] p = "loss"      -> "print"
      [] p = "print"     -> "backward"
      [] p = "backward"  -> "next"
      [] p = "step"      -> "next"
After_latelog(p) ==
    CASE p = "zero_grad" -> "forward"
      [] p = "forward"   -> "loss"
      [] p = "loss"      -> "backward"
      [] p = "backward"  -> "step"
      [] p = "step"      -> "print"
      [] p = "print"     -> "next"
After(p) ==
    CASE p = "zero_grad" -> "forward"
      [] p = "forward"   -> "loss"
      [] p = "loss"      -> "print"
      [] p = "print"     -> "backward"
      [] p = "backward"  -> "step"
      [] p = "step"      -> "next"

\* step % cfg.freq == 0, for cfg.freq # 0.
\* Faulty variant: the period is counted from step 1.
ShouldLog_shifted(s, f) == (s + 1) % f = 0
ShouldLog(s, f) == s % f = 0

\* lenet5(images=images) with the current parameters.
Forward(images, theta) == <<images, theta>>
\* nll_loss(predictions=predictions, targets=targets).
NLLLoss(preds, targets) == <<preds, targets>>

Init ==
    /\ ds_len \in 0..MaxSamples
    /\ batch_size \in 1..MaxBatchSize
    /\ shuffle \in BOOLEAN
    /\ freq \in 0..MaxFreq
    /\ pc = "iter"
    /\ order = <<>>
    /\ pos = 0
    /\ n = 0
    /\ step = NoStep
    /\ batch = Unbound
    /\ predictions = Unbound
    /\ loss = Unbound
    /\ grad = <<>>
    /\ params = <<>>
    /\ log = <<>>
    /\ raised = <<>>
    /\ ops = <<>>
    /\ batches = <<>>

\* enumerate(train_dataloader): the iterator is created and the sampler fixes
\* the order of the epoch.
CreateIterator ==
    /\ pc = "iter"
    /\ order' \in SamplerOrders(ds_len, shuffle)
    /\ pc' = "next"
    /\ UNCHANGED <<cfgvars, pos, n, step, batch, predictions, loss, grad,
                   params, log, raised, ops, batches>>

\* for step, (_, images, targets, _) in ...: the next batch is bound.
FetchBatch ==
    /\ pc = "next"
    /\ HasNextBatch(order, pos, batch_size)
    /\ batch' = NextBatch(order, pos, batch_size)
    /\ pos' = pos + Len(batch')
    /\ step' = n
    /\ n' = n + 1
    /\ batches' = Append(batches, batch')
    /\ pc' = "zero_grad"
    /\ UNCHANGED <<cfgvars, order, predictions, loss, grad, params, log,
                   raised, ops>>

\* The iterator is exhausted: the loop, and main, end.
EpochEnded ==
    /\ pc = "next"
    /\ ~HasNextBatch(order, pos, batch_size)
    /\ pc' = "done"
    /\ UNCHANGED <<cfgvars, order, pos, n, step, batch, predictions, loss,
                   grad, params, log, raised, ops, batches>>

\* opt.zero_grad()
\* Faulty variant: the gradients are not reset.
ZeroGrad_keep ==
    /\ pc = "zero_grad"
    /\ grad' = grad
    /\ ops' = Append(ops, "zero_grad")
    /\ pc' = After(pc)
    /\ UNCHANGED <<cfgvars, order, pos, n, step, batch, predictions, loss,
                   params, log, raised, batches>>
ZeroGrad ==
    /\ pc = "zero_grad"
    /\ grad' = <<>>
    /\ ops' = Append(ops, "zero_grad")
    /\ pc' = After(pc)
    /\ UNCHANGED <<cfgvars, order, pos, n, step, batch, predictions, loss,
                   params, log, raised, batches>>

\* predictions = lenet5(images=images)
ForwardPass ==
    /\ pc = "forward"
    /\ predictions' = Forward(batch, Len(params))
    /\ ops' = Append(ops, "forward")
    /\ pc' = After(pc)
    /\ UNCHANGED <<cfgvars, order, pos, n, step, batch, loss, grad, params,
                   log, raised, batches>>

\* loss = nll_loss(predictions=predictions, targets=targets)
CalculateLoss ==
    /\ pc = "loss"
    /\ loss' = NLLLoss(predictions, batch)
    /\ ops' = Append(ops, "loss")
    /\ pc' = After(pc)
    /\ UNCHANGED <<cfgvars, order, pos, n, step, batch, predictions, grad,
                   params, log, raised, batches>>

\* Faulty variants: freq = 0 read as "never log"; logging that detaches the
\* loss it prints.
PrintLoss_zero ==
    /\ pc = "print"
    /\ \/ /\ freq # 0
          /\ ShouldLog(step, freq)
          /\ log' = Append(log, <<step, loss>>)
          /\ ops' = Append(ops, "log")
          /\ pc' = After(pc)
          /\ UNCHANGED raised
       \/ /\ (freq = 0 \/ ~ShouldLog(step, freq))
          /\ pc' = After(pc)
          /\ UNCHANGED <<log, ops, raised>>
    /\ UNCHANGED <<cfgvars, order, pos, n, step, batch, predictions, loss,
                   grad, params, batches>>
PrintLoss_detach ==
    /\ pc = "print"
    /\ \/ /\ freq # 0
          /\ ShouldLog(step, freq)
          /\ log' = Append(log, <<step, loss>>)
          /\ ops' = Append(ops, "log")
          /\ loss' = Unbound
          /\ pc' = After(pc)
          /\ UNCHANGED raised
       \/ /\ freq # 0
          /\ ~ShouldLog(step, freq)
          /\ pc' = After(pc)
          /\ UNCHANGED <<log, ops, raised, loss>>
       \/ /\ freq = 0
          /\ raised' = <<"print", "ZeroDivisionError">>
          /\ pc' = "failed"
          /\ UNCHANGED <<log, ops, loss>>
    /\ UNCHANGED <<cfgvars, order, pos, n, step, batch, predictions,
                   grad, params, batches>>
\* if step % cfg.freq == 0: logging.info(...)
\* step % 0 raises ZeroDivisionError.
PrintLoss ==
    /\ pc = "print"
    /\ \/ /\ freq # 0
          /\ ShouldLog(step, freq)
          /\ log' = Append(log, <<step, loss>>)
          /\ ops' = Append(ops, "log")
          /\ pc' = After(pc)
          /\ UNCHANGED raised
       \/ /\ freq # 0
          /\ ~ShouldLog(step, freq)
          /\ pc' = After(pc)
          /\ UNCHANGED <<log, ops, raised>>
       \/ /\ freq = 0
          /\ raised' = <<"print", "ZeroDivisionError">>
          /\ pc' = "failed"
          /\ UNCHANGED <<log, ops>>
    /\ UNCHANGED <<cfgvars, order, pos, n, step, batch, predictions, loss,
                   grad, params, batches>>

\* loss.backward(): the gradient of loss is added into .grad
Backward ==
    /\ pc = "backward"
    /\ grad' = Append(grad, loss)
    /\ ops' = Append(ops, "backward")
    /\ pc' = After(pc)
    /\ UNCHANGED <<cfgvars, order, pos, n, step, batch, predictions, loss,
                   params, log, raised, batches>>

\* opt.step(): the parameters are updated from .grad
OptStep ==
    /\ pc = "step"
    /\ params' = Append(params, grad)
    /\ ops' = Append(ops, "step")
    /\ pc' = After(pc)
    /\ UNCHANGED <<cfgvars, order, pos, n, step, batch, predictions, loss,
                   grad, log, raised, batches>>

Next ==
    \/ CreateIterator
    \/ FetchBatch
    \/ EpochEnded
    \/ ZeroGrad
    \/ ForwardPass
    \/ CalculateLoss
    \/ PrintLoss
    \/ Backward
    \/ OptStep

Spec == Init /\ [][Next]_vars

\* The interpreter runs main to its end: some step is taken whenever one is
\* possible.
LiveSpec == Spec /\ WF_vars(Next)

\* Any statement of the loop may raise (data loading, forward pass, loss,
\* logging, backward, optimizer step). main has no try/except: the exception
\* leaves main.
\* Faulty variant: the exception is swallowed and the loop carries on.
Raise_retry ==
    /\ pc \in {"next", "zero_grad", "forward", "loss", "print", "backward",
               "step"}
    /\ raised' = <<pc, "Exception">>
    /\ pc' = pc
    /\ UNCHANGED <<cfgvars, order, pos, n, step, batch, predictions, loss,
                   grad, params, log, ops, batches>>
Raise ==
    /\ pc \in {"next", "zero_grad", "forward", "loss", "print", "backward",
               "step"}
    /\ raised' = <<pc, "Exception">>
    /\ pc' = "failed"
    /\ UNCHANGED <<cfgvars, order, pos, n, step, batch, predictions, loss,
                   grad, params, log, ops, batches>>

NextFail == Next \/ Raise

SpecFail == Init /\ [][NextFail]_vars

(***************************************************************************)
(* Auxiliary definitions for the properties.                               *)
(***************************************************************************)
TrainingOps == {"zero_grad", "forward", "loss", "backward", "step"}
IsTrainingOp(o) == o \in TrainingOps
\* The operations performed so far, without the log lines.
Trained == SelectSeq(ops, IsTrainingOp)
Cycle == <<"zero_grad", "forward", "loss", "backward", "step">>
Count(o) == Cardinality({i \in 1..Len(ops) : ops[i] = o})

\* ceil(a / b) for b > 0.
CeilDiv(a, b) == (a + b - 1) \div b
\* The number of batches of the epoch.
NumBatches == CeilDiv(ds_len, batch_size)

RECURSIVE Flatten(_)
Flatten(ss) == IF ss = <<>> THEN <<>> ELSE Head(ss) \o Flatten(Tail(ss))

\* The loss of the k-th batch (k from 1) under the parameters that result
\* from k - 1 updates.
LossOf(k) == NLLLoss(Forward(batches[k], k - 1), batches[k])

\* C1: within every iteration the operations occur in the order zero_grad,
\* forward, loss, backward, step; none is skipped, repeated or reordered, and
\* the operations of iteration k all lie between the fetch of batch k and the
\* fetch of batch k + 1 (so an update completes before the next reset).
C1_FixedOrder ==
    /\ \A i \in 1..Len(Trained) : Trained[i] = Cycle[((i - 1) % 5) + 1]
    /\ Len(Trained) <= 5 * Len(batches)
    /\ Len(Trained) >= 5 * (Len(batches) - 1)
    /\ pc \in {"next", "done"} => Len(Trained) = 5 * Len(batches)

C1_Witness ==
    /\ pc = "zero_grad"
    /\ Len(batches) = 2
    /\ Len(Trained) = 5

C2_Safety ==
    /\ n = Len(batches)
    /\ pc \in {"zero_grad", "forward", "loss", "print", "backward", "step"}
          => step = Len(batches) - 1
    /\ \A i, j \in 1..Len(Flatten(batches)) :
          Flatten(batches)[i] = Flatten(batches)[j] => i = j
    /\ pc = "done" =>
          /\ Len(batches) = NumBatches
          /\ Count("zero_grad") = NumBatches
          /\ Count("step") = NumBatches
          /\ \A x \in 1..ds_len :
                Cardinality({i \in 1..Len(Flatten(batches)) :
                                Flatten(batches)[i] = x}) = 1

C3_AllBatchesFull ==
    \A i \in 1..Len(batches) : Len(batches[i]) = batch_size

\* C3 amended: every batch but the last of the epoch has exactly batch_size
\* samples; the last one holds the remaining ds_len - (N-1) * batch_size
\* samples, which is between 1 and batch_size.
C3_BatchSizes ==
    \A i \in 1..Len(batches) :
        /\ i <= NumBatches
        /\ Len(batches[i]) =
              IF i < NumBatches THEN batch_size
              ELSE ds_len - (NumBatches - 1) * batch_size
        /\ Len(batches[i]) \in 1..batch_size

C3_Witness ==
    /\ pc = "done"
    /\ Len(batches) >= 2
    /\ Len(batches[1]) = batch_size
    /\ Len(batches[Len(batches)]) < batch_size

\* The number of iterations that have gone past the print statement.
PastPrint ==
    IF pc \in {"zero_grad", "forward", "loss", "print"} THEN step ELSE n

\* C4: for freq >= 1 the log line of step s is emitted iff s % freq = 0: the
\* logged steps are 0, freq, 2*freq, ... in order, step s is logged as soon
\* as it has gone past the print statement, and the epoch emits
\* ceil(N / freq) lines.
C4_PeriodicLog ==
    freq >= 1 =>
        /\ \A i \in 1..Len(log) : log[i][1] = (i - 1) * freq
        /\ \A s \in 0..(PastPrint - 1) :
              (s % freq = 0) <=> (\E i \in 1..Len(log) : log[i][1] = s)
        /\ \A i \in 1..Len(log) : log[i][1] < n
        /\ Len(log) = CeilDiv(PastPrint, freq)
        /\ pc = "done" => Len(log) = CeilDiv(NumBatches, freq)

C4_Witness ==
    /\ pc = "done"
    /\ freq >= 2
    /\ NumBatches > freq
    /\ Len(log) >= 2
    /\ NumBatches % freq # 0

\* C5: the counts of completed operations are ordered
\* zero_grad >= forward >= loss >= backward >= step, differ by at most one,
\* and all equal the number of batches once the loop has ended.
C5_OneStepPerBatch ==
    /\ Count("zero_grad") >= Count("forward")
    /\ Count("forward") >= Count("loss")
    /\ Count("loss") >= Count("backward")
    /\ Count("backward") >= Count("step")
    /\ Count("zero_grad") - Count("step") <= 1
    /\ pc = "done" =>
          \A o \in TrainingOps : Count(o) = NumBatches

C5_Witness ==
    /\ pc = "done"
    /\ NumBatches >= 3
    /\ Count("step") = NumBatches

\* The step at which main aborted.
FailedStep == IF raised[1] = "next" THEN n ELSE step

\* C6: once an operation of step k has raised, main does nothing more (no
\* later step starts, the failed step is not retried), and at that point the
\* updates of steps 0..k-1, and only those, are applied and stay applied.
C6_NoRecovery ==
    [][ /\ raised # <<>> => UNCHANGED vars
        /\ (raised = <<>> /\ raised' # <<>>) =>
              /\ params' = params
              /\ ops' = ops
              /\ pc' = "failed"
              /\ Len(params') = FailedStep'
              /\ Count("step")' = FailedStep'
              /\ n' <= FailedStep' + 1 ]_vars

C6_Witness ==
    /\ raised = <<"backward", "Exception">>
    /\ pc = "failed"
    /\ step = 2
    /\ Len(params) = 2

\* C7: gradients never accumulate across batches: the gradient consumed by
\* the optimizer step of step k is the gradient of batch k's loss alone.
C7_NoAccumulation ==
    /\ \A k \in 1..Len(params) : params[k] = <<LossOf(k)>>
    /\ pc = "step" => grad = <<LossOf(step + 1)>>

C7_Witness ==
    /\ Len(params) >= 3
    /\ params[3] = <<LossOf(3)>>

\* C8: the log line of step s reports the loss of batch s under the
\* parameters that result from exactly s updates; it is emitted right after
\* the loss computation and before the backward pass and the update of the
\* same iteration.
C8_LoggedLoss ==
    /\ \A i \in 1..Len(log) :
          /\ log[i][1] + 1 \in 1..Len(batches)
          /\ log[i][2] = LossOf(log[i][1] + 1)
    /\ \A j \in 1..Len(ops) :
          ops[j] = "log" =>
              /\ j > 1
              /\ ops[j - 1] = "loss"
              /\ j < Len(ops) => ops[j + 1] = "backward"
              /\ Cardinality({i \in 1..j : ops[i] = "log"}) \in 1..Len(log)
              /\ Cardinality({i \in 1..j : ops[i] = "step"})
                    = log[Cardinality({i \in 1..j : ops[i] = "log"})][1]

C8_Witness ==
    /\ Len(log) >= 2
    /\ log[1] = <<0, NLLLoss(Forward(batches[1], 0), batches[1])>>
    /\ log[2][1] >= 1
    /\ pc = "done"

\* The batches of an epoch over the order ord, from the order and the batch
\* size alone.
RECURSIVE EpochBatches(_, _)
EpochBatches(ord, bs) ==
    IF ord = <<>> THEN <<>>
    ELSE <<SubSeq(ord, 1, Min(bs, Len(ord)))>>
            \o EpochBatches(SubSeq(ord, Min(bs, Len(ord)) + 1, Len(ord)), bs)

RefLoss(ord, bs, k) ==
    NLLLoss(Forward(EpochBatches(ord, bs)[k], k - 1), EpochBatches(ord, bs)[k])

\* The parameters and the gradient of a run that never logs, after k
\* training operations: a function of the order and the batch size only.
RefParams(ord, bs, k) ==
    [i \in 1..(k \div 5) |-> <<RefLoss(ord, bs, i)>>]
RefGrad(ord, bs, k) ==
    IF k % 5 \in 1..3 THEN <<>>
    ELSE IF k % 5 = 4 THEN <<RefLoss(ord, bs, (k \div 5) + 1)>>
    ELSE IF k = 0 THEN <<>>
    ELSE <<RefLoss(ord, bs, k \div 5)>>

\* C9: logging is observation-only: for every freq >= 1 the training
\* operations, the gradient and the parameters are those of the run that
\* never logs, a function of the batch order and the batch size that does
\* not mention freq; so two runs differing only in freq agree on them, and
\* end with the same parameters.
C9_LogObservationOnly ==
    (freq >= 1 /\ pc # "iter") =>
        /\ params = RefParams(order, batch_size, Len(Trained))
        /\ grad = RefGrad(order, batch_size, Len(Trained))
        /\ \A i \in 1..Len(Trained) : Trained[i] = Cycle[((i - 1) % 5) + 1]
        /\ pc = "done" =>
              Len(Trained) = 5 * Len(EpochBatches(order, batch_size))

C9_Witness ==
    /\ pc = "done"
    /\ freq = 2
    /\ Len(log) = 2
    /\ Len(params) = 3

C10_Safety ==
    (freq = 0 /\ ds_len >= 1) =>
        /\ pc \notin {"backward", "step", "done"}
        /\ log = <<>>
        /\ params = <<>>
        /\ Count("backward") = 0
        /\ Count("step") = 0
        /\ n <= 1
        /\ pc = "failed" =>
              /\ raised = <<"print", "ZeroDivisionError">>
              /\ ops = <<"zero_grad", "forward", "loss">>
              /\ step = 0

\* C10: with freq = 0 and a non-empty dataset main fails in the first
\* iteration at step % cfg.freq, after the first zero_grad, forward and loss
\* and before any backward or step; nothing is logged and the parameters are
\* never updated.
C10_FreqZero ==
    /\ []C10_Safety
    /\ ((freq = 0 /\ ds_len >= 1) => <>(pc = "failed"))

C10_Witness ==
    /\ pc = "failed"
    /\ freq = 0
    /\ raised = <<"print", "ZeroDivisionError">>
    /\ ops = <<"zero_grad", "forward", "loss">>

====
